---------------------------- MODULE Spec2Model ----------------------------
(***************************************************************************)
(* Model of the LabWired example firmwares:                                *)
(*   examples/nucleo-h563zi/board_firmware/main.c    (periodic report)     *)
(*   examples/hil-displacement-showcase/firmware/main.c  (DMA stress test) *)
(*   examples/arm-c-hello/src/main.c                 (string output only)  *)
(* The CPU executes one C statement per step (a busy-wait loop: one poll   *)
(* per step).  Registers are 32-bit words, held as the set of the          *)
(* positions of their set bits.  The peripherals (GPIO set/reset logic,    *)
(* USART3 transmitter, DMA1 channel 1, the PC13 input) are the environment *)
(* the firmware runs against and step independently of the CPU.            *)
(***************************************************************************)
EXTENDS Integers, Sequences, FiniteSets, TLC

VARIABLES
  fw,             \* the firmware running: "nucleo", "hil"; "dec": one call
                  \* of uart3_write_u32_dec on its own; "cfg": one call of
                  \* gpio_config_output or gpio_config_input_pullup; "str":
                  \* one call of a string-write routine
  arg,            \* "dec", "cfg", "str": the inputs of the call
  lap0,           \* "nucleo": main-loop iterations completed before the run
  pc,             \* the call stack of the CPU
  loc,            \* local variables and parameters
  rcc, gpio, usart, dma,   \* the registers
  txe,            \* USART3->ISR, transmit-buffer-empty flag
  tcif,           \* DMA1->ISR, channel-1 transfer-complete flag
  stress_buffer,
  tdrLog,         \* the bytes the CPU stored to USART3->TDR ("nucleo": since
                  \* the head of the current loop iteration), or to UART_DR
                  \* by uart_putc
  dmaLog,         \* the bytes the DMA stored to USART3->TDR
  sawTXE,         \* the last status read since the last CPU store to TDR
                  \* found the transmit-buffer-empty flag set
  tcSeen,         \* the completion poll has found the flag set
  overrun,        \* a CPU store to TDR hit a byte not yet shifted out
  laps,           \* main-loop iterations begun in this run
  stores          \* the configuration registers the CPU stored to, in order

vars == <<fw, arg, lap0, pc, loc, rcc, gpio, usart, dma, txe, tcif,
          stress_buffer, tdrLog, dmaLog, sawTXE, tcSeen, overrun, laps,
          stores>>

regs == <<rcc, gpio, usart, dma>>
hist == <<tdrLog, dmaLog, sawTXE, tcSeen, overrun>>

(***************************************************************************)
(* 32-bit words as sets of bit positions.                                  *)
(***************************************************************************)
Word == 0..31

\* the word holding the number n, 0 <= n < 2^31
Bits(n) == {k \in 0..30 : (n \div (2^k)) % 2 = 1}

Shl(m, n) == {k + n : k \in m} \cap Word

Shr(m, n) == {k - n : k \in {j \in m : j >= n}}

Not(m) == Word \ m

RECURSIVE Val(_)
Val(m) == IF m = {} THEN 0
          ELSE LET k == CHOOSE x \in m : TRUE IN 2^k + Val(m \ {k})

\* uint32_t arithmetic values: two 16-bit halves, value = hi * 2^16 + lo
Half == 2^16

U32Of(n) == [hi |-> (n \div Half) % Half, lo |-> n % Half]

U32Zero(v) == v.hi = 0 /\ v.lo = 0

\* fault: v + 1 without the carry into the upper half
U32Inc_NoCarry(v) == [hi |-> v.hi, lo |-> (v.lo + 1) % Half]

\* v + 1 modulo 2^32
U32Inc(v) ==
  IF v.lo + 1 < Half THEN [hi |-> v.hi, lo |-> v.lo + 1]
  ELSE [hi |-> (v.hi + 1) % Half, lo |-> 0]

\* v % 10
U32Mod10(v) == ((v.hi % 10) * Half + v.lo) % 10

\* fault: v / 8, the digits taken in the wrong radix
U32Div10_Octal(v) ==
  [hi |-> v.hi \div 8, lo |-> ((v.hi % 8) * Half + v.lo) \div 8]

\* v / 10
U32Div10(v) ==
  [hi |-> v.hi \div 10, lo |-> ((v.hi % 10) * Half + v.lo) \div 10]

U8(n) == n % 256

(***************************************************************************)
(* Bounds of the model.                                                    *)
(***************************************************************************)
\* main-loop iterations of the periodic-report firmware followed in one run
MaxLaps == 11

\* the longest string examined on its own, without its terminator
MaxStrLen == 3

\* loop iterations of delay_cycles covered by one step of the model
DelayStride == 6000000

(***************************************************************************)
(* Program constants.                                                      *)
(***************************************************************************)
STRESS_BUFFER_SIZE == 256

LED1_PIN == 0

LED2_PIN == 4

LED3_PIN == 4

BTN_PIN == 13

USART3_BRR_115200_AT_64MHZ == 556

HIL_BRR == 556

DELAY_CYCLES == 12000000

BUF_SIZE == 10

(***************************************************************************)
(* Register bit fields used by the firmwares (stm32h563xx.h).              *)
(***************************************************************************)
RCC_AHB1ENR_DMA1EN == {0}
RCC_AHB2ENR_GPIOBEN == {1}
RCC_AHB2ENR_GPIOCEN == {2}
RCC_AHB2ENR_GPIODEN == {3}
RCC_AHB2ENR_GPIOFEN == {5}
RCC_AHB2ENR_GPIOGEN == {6}
RCC_APB1LENR_USART3EN == {18}
RCC_CCIPR1_USART3SEL == {6, 7, 8}
GPIO_MODER_MODE8_Msk == {16, 17}
GPIO_MODER_MODE8_1 == {17}
GPIO_MODER_MODE9_Msk == {18, 19}
GPIO_MODER_MODE9_1 == {19}
GPIO_OTYPER_OT8 == {8}
GPIO_OTYPER_OT9 == {9}
GPIO_OSPEEDR_OSPEED8_Msk == {16, 17}
GPIO_OSPEEDR_OSPEED9_Msk == {18, 19}
GPIO_PUPDR_PUPD8_Msk == {16, 17}
GPIO_PUPDR_PUPD9_Msk == {18, 19}
GPIO_PUPDR_PUPD9_0 == {18}
GPIO_AFRH_AFSEL8_Msk == {0, 1, 2, 3}
GPIO_AFRH_AFSEL9_Msk == {4, 5, 6, 7}
GPIO_AFRH_AFSEL8_Pos == 0
GPIO_AFRH_AFSEL9_Pos == 4
USART_CR1_UE == {0}
USART_CR1_RE == {2}
USART_CR1_TE == {3}
USART_CR3_DMAT == {7}
DMA_CCR_EN == {0}
DMA_CCR_TCIE == {1}
DMA_CCR_DIR == {4}
DMA_CCR_MINC == {7}

(***************************************************************************)
(* String literals: ASCII codes with the terminating NUL.                  *)
(***************************************************************************)
\* "HIL Stress Test Started\r\n"
STR_STARTED == <<72, 73, 76, 32, 83, 116, 114, 101, 115, 115, 32, 84, 101, 115,
                 116, 32, 83, 116, 97, 114, 116, 101, 100, 13, 10, 0>>

\* "HIL Stress Test Passed\r\n"
STR_PASSED == <<72, 73, 76, 32, 83, 116, 114, 101, 115, 115, 32, 84, 101, 115,
                116, 32, 80, 97, 115, 115, 101, 100, 13, 10, 0>>

\* "H563-BLINK-UART\r\n"
STR_BANNER == <<72, 53, 54, 51, 45, 66, 76, 73, 78, 75, 45, 85, 65, 82, 84,
                13, 10, 0>>

\* "BLINK "
STR_BLINK == <<66, 76, 73, 78, 75, 32, 0>>

\* " PB0="
STR_PB0 == <<32, 80, 66, 48, 61, 0>>

\* " PF4="
STR_PF4 == <<32, 80, 70, 52, 61, 0>>

\* " PG4="
STR_PG4 == <<32, 80, 71, 52, 61, 0>>

\* " BTN13="
STR_BTN13 == <<32, 66, 84, 78, 49, 51, 61, 0>>

\* "\r\n"
STR_CRLF == <<13, 10, 0>>

(***************************************************************************)
(* Control: pc is the call stack, the current label first.                 *)
(***************************************************************************)
At(l) == pc # <<>> /\ Head(pc) = l

Goto(l) == pc' = <<l>> \o Tail(pc)

Call(f, r) == pc' = <<f, r>> \o Tail(pc)

Return == pc' = Tail(pc)

\* the CPU stores to a configuration register (any register but a GPIO
\* BSRR and the USART3 TDR)
Store(r) == stores' = Append(stores, r)

(***************************************************************************)
(* Reset state.                                                            *)
(***************************************************************************)
Ports == {"GPIOB", "GPIOC", "GPIOD", "GPIOF", "GPIOG"}

\* contents of the GPIO configuration registers at reset: all fields 00
\* or all fields 11 (analog mode), depending on the target
ResetPatterns == {{}, Word}

GpioReset(p) == [MODER |-> p, OTYPER |-> p, OSPEEDR |-> p, PUPDR |-> p,
                 AFRH |-> p, ODR |-> {}, IDR |-> {}]

\* DMA1 channel 1 at reset; cur is the channel's running memory offset
DmaReset ==
  [CPAR |-> "none", CMAR |-> "none", CNDTR |-> 0, CCR |-> {}, cur |-> 0]

\* an entry of buf that has not been written
Uninit == 0 - 1

LocReset == [fill_i |-> 0, str |-> <<0>>, s |-> 1, byte |-> 0,
             value |-> U32Of(0),
             buf |-> [k \in 0..(BUF_SIZE - 1) |-> Uninit], i |-> 0,
             cfg_gpio |-> "GPIOB", cfg_pin |-> 0, on |-> 0,
             blink_count |-> U32Of(0), led_on |-> 0, btn |-> 0, cycles |-> 0]

InitCommon ==
  /\ arg = U32Of(0)
  /\ lap0 = U32Of(0)
  /\ loc = LocReset
  /\ rcc = [AHB1ENR |-> {}, AHB2ENR |-> {}, APB1LENR |-> {}, CCIPR1 |-> {}]
  /\ \E p \in ResetPatterns : gpio = [g \in Ports |-> GpioReset(p)]
  /\ usart = [CR1 |-> {}, CR2 |-> {}, CR3 |-> {}, BRR |-> 0]
  /\ dma = DmaReset
  /\ txe = TRUE
  /\ tcif = FALSE
  /\ stress_buffer = [k \in 0..(STRESS_BUFFER_SIZE - 1) |-> 0]
  /\ tdrLog = <<>>
  /\ dmaLog = <<>>
  /\ sawTXE = FALSE
  /\ tcSeen = FALSE
  /\ overrun = FALSE
  /\ laps = 0
  /\ stores = <<>>

(***************************************************************************)
(* Peripherals.                                                            *)
(***************************************************************************)
\* GPIO: a write of val to BSRR sets the output bits named by val[15:0] and
\* resets those named by val[31:16]
BSRR_Write(odr, val) ==
  (odr \ Shr(val, 16)) \cup {k \in val : k < 16}

\* a CPU store to USART3->TDR
TDR_Write(b) ==
  /\ tdrLog' = Append(tdrLog, b)
  /\ overrun' = (overrun \/ ~txe)
  /\ txe' = FALSE
  /\ sawTXE' = FALSE

\* USART3 moves the data register into the shift register: TXE is set again
UartTx ==
  /\ ~txe
  /\ USART_CR1_UE \subseteq usart.CR1
  /\ USART_CR1_TE \subseteq usart.CR1
  /\ txe' = TRUE
  /\ UNCHANGED <<fw, arg, lap0, pc, loc, regs, tcif, stress_buffer, tdrLog,
                 dmaLog,
                 sawTXE, tcSeen, overrun, laps, stores>>

\* the memory the DMA reads at offset k of the programmed memory address
DmaRead(k) ==
  IF dma.CMAR = "stress_buffer" /\ k \in DOMAIN stress_buffer
  THEN stress_buffer[k] ELSE 0

\* DMA1 channel 1 serves one USART3 transmit request
DmaTransfer ==
  /\ DMA_CCR_EN \subseteq dma.CCR
  /\ DMA_CCR_DIR \subseteq dma.CCR
  /\ dma.CNDTR > 0
  /\ dma.CPAR = "USART3_TDR"
  /\ USART_CR3_DMAT \subseteq usart.CR3
  /\ USART_CR1_UE \subseteq usart.CR1
  /\ USART_CR1_TE \subseteq usart.CR1
  /\ txe
  /\ dmaLog' = Append(dmaLog, DmaRead(dma.cur))
  /\ txe' = FALSE
  /\ dma' = [dma EXCEPT !.CNDTR = @ - 1,
                        !.cur = IF DMA_CCR_MINC \subseteq dma.CCR
                                THEN @ + 1 ELSE @]
  /\ tcif' = (tcif \/ dma.CNDTR = 1)
  /\ UNCHANGED <<fw, arg, lap0, pc, loc, rcc, gpio, usart, stress_buffer,
                 tdrLog,
                 sawTXE, tcSeen, overrun, laps, stores>>

(***************************************************************************)
(* hil-displacement-showcase/firmware/main.c                               *)
(***************************************************************************)
\* fault: the transmitter left disabled
HIL_CR1_VALUE_NoTe == USART_CR1_UE

\* value written to USART3->CR1 at the end of uart3_init
HIL_CR1_VALUE == USART_CR1_TE \cup USART_CR1_UE

\* fault: the DMA request of the transmitter left disabled
HIL_CR3_SET_None == {}

\* the bits uart3_init sets in USART3->CR3
HIL_CR3_SET == USART_CR3_DMAT

hil_uart3_init ==
  /\ UNCHANGED <<fw, arg, lap0, loc, dma, txe, tcif, stress_buffer, hist, laps>>
  /\ \/ /\ At("hil_uart3_init_9")
        /\ Store(<<"RCC", "AHB2ENR">>)
        /\ rcc' = [rcc EXCEPT !.AHB2ENR = @ \cup RCC_AHB2ENR_GPIODEN]
        /\ Goto("hil_uart3_init_10")
        /\ UNCHANGED <<gpio, usart>>
     \/ /\ At("hil_uart3_init_10")
        /\ Store(<<"RCC", "APB1LENR">>)
        /\ rcc' = [rcc EXCEPT !.APB1LENR = @ \cup RCC_APB1LENR_USART3EN]
        /\ Goto("hil_uart3_init_13")
        /\ UNCHANGED <<gpio, usart>>
     \/ /\ At("hil_uart3_init_13")
        /\ Store(<<"GPIOD", "MODER">>)
        /\ gpio' = [gpio EXCEPT !["GPIOD"].MODER =
                      @ \cap Not(GPIO_MODER_MODE8_Msk)]
        /\ Goto("hil_uart3_init_14")
        /\ UNCHANGED <<rcc, usart>>
     \/ /\ At("hil_uart3_init_14")
        /\ Store(<<"GPIOD", "MODER">>)
        /\ gpio' = [gpio EXCEPT !["GPIOD"].MODER = @ \cup GPIO_MODER_MODE8_1]
        /\ Goto("hil_uart3_init_15")
        /\ UNCHANGED <<rcc, usart>>
     \/ /\ At("hil_uart3_init_15")
        /\ Store(<<"GPIOD", "AFRH">>)
        /\ gpio' = [gpio EXCEPT !["GPIOD"].AFRH =
                      @ \cap Not(GPIO_AFRH_AFSEL8_Msk)]
        /\ Goto("hil_uart3_init_16")
        /\ UNCHANGED <<rcc, usart>>
     \/ /\ At("hil_uart3_init_16")
        /\ Store(<<"GPIOD", "AFRH">>)
        /\ gpio' = [gpio EXCEPT !["GPIOD"].AFRH =
                      @ \cup Shl(Bits(7), GPIO_AFRH_AFSEL8_Pos)]
        /\ Goto("hil_uart3_init_18")
        /\ UNCHANGED <<rcc, usart>>
     \/ /\ At("hil_uart3_init_18")
        /\ Store(<<"USART3", "BRR">>)
        /\ usart' = [usart EXCEPT !.BRR = HIL_BRR]
        /\ Goto("hil_uart3_init_19")
        /\ UNCHANGED <<rcc, gpio>>
     \/ /\ At("hil_uart3_init_19")
        /\ Store(<<"USART3", "CR3">>)
        /\ usart' = [usart EXCEPT !.CR3 = @ \cup HIL_CR3_SET]
        /\ Goto("hil_uart3_init_20")
        /\ UNCHANGED <<rcc, gpio>>
     \/ /\ At("hil_uart3_init_20")
        /\ Store(<<"USART3", "CR1">>)
        /\ usart' = [usart EXCEPT !.CR1 = HIL_CR1_VALUE]
        /\ Return
        /\ UNCHANGED <<rcc, gpio>>

\* fault: the channel started without memory increment
DMA1_CCR_VALUE_NoMinc == DMA_CCR_DIR \cup DMA_CCR_TCIE \cup DMA_CCR_EN

\* fault: the channel configured but not enabled
DMA1_CCR_VALUE_NoEn == DMA_CCR_MINC \cup DMA_CCR_DIR \cup DMA_CCR_TCIE

\* value written to DMA1_Channel1->CCR, the write that starts the channel
DMA1_CCR_VALUE ==
  DMA_CCR_MINC \cup DMA_CCR_DIR \cup DMA_CCR_TCIE \cup DMA_CCR_EN

dma1_init ==
  /\ UNCHANGED <<fw, arg, lap0, loc, gpio, usart, txe, tcif, stress_buffer,
                 hist, laps>>
  /\ \/ /\ At("dma1_init_24")
        /\ Store(<<"RCC", "AHB1ENR">>)
        /\ rcc' = [rcc EXCEPT !.AHB1ENR = @ \cup RCC_AHB1ENR_DMA1EN]
        /\ Goto("dma1_init_31")
        /\ UNCHANGED dma
     \/ /\ At("dma1_init_31")
        /\ Store(<<"DMA1_Channel1", "CPAR">>)
        /\ dma' = [dma EXCEPT !.CPAR = "USART3_TDR"]
        /\ Goto("dma1_init_32")
        /\ UNCHANGED rcc
     \/ /\ At("dma1_init_32")
        /\ Store(<<"DMA1_Channel1", "CMAR">>)
        /\ dma' = [dma EXCEPT !.CMAR = "stress_buffer", !.cur = 0]
        /\ Goto("dma1_init_33")
        /\ UNCHANGED rcc
     \/ /\ At("dma1_init_33")
        /\ Store(<<"DMA1_Channel1", "CNDTR">>)
        /\ dma' = [dma EXCEPT !.CNDTR = STRESS_BUFFER_SIZE]
        /\ Goto("dma1_init_34")
        /\ UNCHANGED rcc
     \/ /\ At("dma1_init_34")
        /\ Store(<<"DMA1_Channel1", "CCR">>)
        /\ dma' = [dma EXCEPT !.CCR = DMA1_CCR_VALUE]
        /\ Return
        /\ UNCHANGED rcc

hil_uart3_write_str ==
  /\ UNCHANGED <<fw, arg, lap0, regs, tcif, stress_buffer, dmaLog, tcSeen, laps, stores>>
  /\ \/ /\ At("hil_uart3_write_str_38")
        /\ IF loc.str[loc.s] # 0
           THEN Goto("hil_uart3_write_str_39")
           ELSE Return
        /\ UNCHANGED <<loc, txe, tdrLog, sawTXE, overrun>>
     \/ /\ At("hil_uart3_write_str_39")
        /\ IF txe
           THEN Goto("hil_uart3_write_str_40")
           ELSE UNCHANGED pc
        /\ sawTXE' = txe
        /\ UNCHANGED <<loc, txe, tdrLog, overrun>>
     \/ /\ At("hil_uart3_write_str_40")
        /\ TDR_Write(U8(loc.str[loc.s]))
        /\ loc' = [loc EXCEPT !.s = @ + 1]
        /\ Goto("hil_uart3_write_str_38")

\* (1UL << 0): LED Green ON
HIL_LED_ON == Shl(Bits(1), 0)

\* fault: the set bit written where the reset bit is meant
HIL_LED_OFF_SetBit == Shl(Bits(1), 0)

\* (1UL << 16): LED Green OFF
HIL_LED_OFF == Shl(Bits(1), 16)

\* fault: the completion poll gives up without the flag
TransferComplete_GiveUp == TRUE

\* (DMA1->ISR & DMA_ISR_TCIF1) != 0
TransferComplete == tcif

\* fault: the fill loop stops one byte early
FillCond_Short(i) == i < STRESS_BUFFER_SIZE - 1

\* i<STRESS_BUFFER_SIZE
FillCond(i) == i < STRESS_BUFFER_SIZE

hil_main ==
  /\ UNCHANGED <<fw, arg, lap0, rcc, usart, dma, txe, tcif, tdrLog, dmaLog, sawTXE,
                 overrun, laps>>
  /\ \/ /\ At("hil_main_46")
        /\ loc' = [loc EXCEPT !.fill_i = 0]
        /\ Goto("hil_main_46_test")
        /\ UNCHANGED <<gpio, stress_buffer, tcSeen>>
        /\ UNCHANGED stores
     \/ /\ At("hil_main_46_test")
        /\ IF FillCond(loc.fill_i)
           THEN Goto("hil_main_47")
           ELSE Goto("hil_main_50")
        /\ UNCHANGED <<loc, gpio, stress_buffer, tcSeen>>
        /\ UNCHANGED stores
     \/ /\ At("hil_main_47")
        /\ stress_buffer' = [stress_buffer EXCEPT ![loc.fill_i] =
                               U8(Val(Bits(loc.fill_i) \cap Bits(255)))]
        /\ loc' = [loc EXCEPT !.fill_i = @ + 1]
        /\ Goto("hil_main_46_test")
        /\ UNCHANGED <<gpio, tcSeen>>
        /\ UNCHANGED stores
     \/ /\ At("hil_main_50")
        /\ Call("hil_uart3_init_9", "hil_main_51")
        /\ UNCHANGED <<loc, gpio, stress_buffer, tcSeen>>
        /\ UNCHANGED stores
     \/ /\ At("hil_main_51")
        /\ Call("dma1_init_24", "hil_main_54")
        /\ UNCHANGED <<loc, gpio, stress_buffer, tcSeen>>
        /\ UNCHANGED stores
     \/ /\ At("hil_main_54")
        /\ UNCHANGED stores
        /\ gpio' = [gpio EXCEPT !["GPIOB"].ODR = BSRR_Write(@, HIL_LED_ON)]
        /\ Goto("hil_main_55")
        /\ UNCHANGED <<loc, stress_buffer, tcSeen>>
     \/ /\ At("hil_main_55")
        /\ loc' = [loc EXCEPT !.str = STR_STARTED, !.s = 1]
        /\ Call("hil_uart3_write_str_38", "hil_main_58")
        /\ UNCHANGED <<gpio, stress_buffer, tcSeen>>
        /\ UNCHANGED stores
     \/ /\ At("hil_main_58")
        /\ IF TransferComplete
           THEN Goto("hil_main_63")
           ELSE UNCHANGED pc
        /\ tcSeen' = (tcSeen \/ tcif)
        /\ UNCHANGED <<loc, gpio, stress_buffer>>
        /\ UNCHANGED stores
     \/ /\ At("hil_main_63")
        /\ loc' = [loc EXCEPT !.str = STR_PASSED, !.s = 1]
        /\ Call("hil_uart3_write_str_38", "hil_main_64")
        /\ UNCHANGED <<gpio, stress_buffer, tcSeen>>
        /\ UNCHANGED stores
     \/ /\ At("hil_main_64")
        /\ UNCHANGED stores
        /\ gpio' = [gpio EXCEPT !["GPIOB"].ODR = BSRR_Write(@, HIL_LED_OFF)]
        /\ Goto("hil_main_67")
        /\ UNCHANGED <<loc, stress_buffer, tcSeen>>
     \/ \* bkpt #0
        /\ At("hil_main_67")
        /\ Goto("hil_main_69")
        /\ UNCHANGED <<loc, gpio, stress_buffer, tcSeen>>
        /\ UNCHANGED stores
     \/ \* while(1);
        /\ At("hil_main_69")
        /\ UNCHANGED <<pc, loc, gpio, stress_buffer, tcSeen>>
        /\ UNCHANGED stores

(***************************************************************************)
(* nucleo-h563zi/board_firmware/main.c                                     *)
(***************************************************************************)
\* while (cycles-- > 0U): one step runs up to DelayStride iterations; the
\* value the last decrement leaves in cycles is never read
\* fault: a test an unsigned value always passes
DelayCond_Always(cycles) == cycles >= 0

\* cycles-- > 0U
DelayCond(cycles) == cycles > 0

delay_cycles ==
  /\ At("delay_cycles_21")
  /\ IF DelayCond(loc.cycles)
     THEN /\ loc' = [loc EXCEPT !.cycles =
                       IF @ > DelayStride THEN @ - DelayStride ELSE 0]
          /\ UNCHANGED pc
     ELSE /\ Return
          /\ UNCHANGED loc
  /\ UNCHANGED <<fw, arg, lap0, regs, txe, tcif, stress_buffer, hist, laps, stores>>

\* fault: the field of a pin taken to start at bit `pin`
PinShift_OneBit(pin) == pin

\* const uint32_t shift = pin * 2U
PinShift(pin) == pin * 2

gpio_config_output ==
  /\ UNCHANGED <<fw, arg, lap0, loc, rcc, usart, dma, txe, tcif, stress_buffer,
                 hist, laps>>
  /\ LET g == loc.cfg_gpio
         shift == PinShift(loc.cfg_pin)
         mask == Shl(Bits(3), shift)
     IN \/ /\ At("gpio_config_output_30")
           /\ Store(<<g, "MODER">>)
           /\ gpio' = [gpio EXCEPT ![g].MODER =
                         (@ \cap Not(mask)) \cup Shl(Bits(1), shift)]
           /\ Goto("gpio_config_output_31")
        \/ /\ At("gpio_config_output_31")
           /\ Store(<<g, "OTYPER">>)
           /\ gpio' = [gpio EXCEPT ![g].OTYPER =
                         @ \cap Not(Shl(Bits(1), loc.cfg_pin))]
           /\ Goto("gpio_config_output_32")
        \/ /\ At("gpio_config_output_32")
           /\ Store(<<g, "OSPEEDR">>)
           /\ gpio' = [gpio EXCEPT ![g].OSPEEDR =
                         (@ \cap Not(mask)) \cup Shl(Bits(1), shift)]
           /\ Goto("gpio_config_output_33")
        \/ /\ At("gpio_config_output_33")
           /\ Store(<<g, "PUPDR">>)
           /\ gpio' = [gpio EXCEPT ![g].PUPDR = @ \cap Not(mask)]
           /\ Return

gpio_config_input_pullup ==
  /\ UNCHANGED <<fw, arg, lap0, loc, rcc, usart, dma, txe, tcif, stress_buffer,
                 hist, laps>>
  /\ LET g == loc.cfg_gpio
         shift == PinShift(loc.cfg_pin)
         mask == Shl(Bits(3), shift)
     IN \/ /\ At("gpio_config_input_pullup_40")
           /\ Store(<<g, "MODER">>)
           /\ gpio' = [gpio EXCEPT ![g].MODER = @ \cap Not(mask)]
           /\ Goto("gpio_config_input_pullup_41")
        \/ /\ At("gpio_config_input_pullup_41")
           /\ Store(<<g, "PUPDR">>)
           /\ gpio' = [gpio EXCEPT ![g].PUPDR =
                         (@ \cap Not(mask)) \cup Shl(Bits(1), shift)]
           /\ Return

\* fault: the receiver left disabled
NUCLEO_CR1_VALUE_NoRe == USART_CR1_TE \cup USART_CR1_UE

\* value written to USART3->CR1 at the end of uart3_init
NUCLEO_CR1_VALUE == USART_CR1_TE \cup USART_CR1_RE \cup USART_CR1_UE

nucleo_uart3_init ==
  /\ UNCHANGED <<fw, arg, lap0, loc, dma, txe, tcif, stress_buffer, hist, laps>>
  /\ \/ /\ At("uart3_init_45")
        /\ Store(<<"RCC", "AHB2ENR">>)
        /\ rcc' = [rcc EXCEPT !.AHB2ENR = @ \cup RCC_AHB2ENR_GPIODEN]
        /\ Goto("uart3_init_46")
        /\ UNCHANGED <<gpio, usart>>
     \/ /\ At("uart3_init_46")
        /\ Store(<<"RCC", "APB1LENR">>)
        /\ rcc' = [rcc EXCEPT !.APB1LENR = @ \cup RCC_APB1LENR_USART3EN]
        /\ Goto("uart3_init_47")
        /\ UNCHANGED <<gpio, usart>>
     \/ /\ At("uart3_init_47")
        /\ Store(<<"RCC", "CCIPR1">>)
        /\ rcc' = [rcc EXCEPT !.CCIPR1 = @ \cap Not(RCC_CCIPR1_USART3SEL)]
        /\ Goto("uart3_init_49")
        /\ UNCHANGED <<gpio, usart>>
     \/ /\ At("uart3_init_49")
        /\ Store(<<"GPIOD", "MODER">>)
        /\ gpio' = [gpio EXCEPT !["GPIOD"].MODER =
                      @ \cap Not(GPIO_MODER_MODE8_Msk \cup GPIO_MODER_MODE9_Msk)]
        /\ Goto("uart3_init_50")
        /\ UNCHANGED <<rcc, usart>>
     \/ /\ At("uart3_init_50")
        /\ Store(<<"GPIOD", "MODER">>)
        /\ gpio' = [gpio EXCEPT !["GPIOD"].MODER =
                      @ \cup (GPIO_MODER_MODE8_1 \cup GPIO_MODER_MODE9_1)]
        /\ Goto("uart3_init_52")
        /\ UNCHANGED <<rcc, usart>>
     \/ /\ At("uart3_init_52")
        /\ Store(<<"GPIOD", "OTYPER">>)
        /\ gpio' = [gpio EXCEPT !["GPIOD"].OTYPER =
                      @ \cap Not(GPIO_OTYPER_OT8 \cup GPIO_OTYPER_OT9)]
        /\ Goto("uart3_init_54")
        /\ UNCHANGED <<rcc, usart>>
     \/ /\ At("uart3_init_54")
        /\ Store(<<"GPIOD", "OSPEEDR">>)
        /\ gpio' = [gpio EXCEPT !["GPIOD"].OSPEEDR =
                      @ \cup (GPIO_OSPEEDR_OSPEED8_Msk \cup GPIO_OSPEEDR_OSPEED9_Msk)]
        /\ Goto("uart3_init_56")
        /\ UNCHANGED <<rcc, usart>>
     \/ /\ At("uart3_init_56")
        /\ Store(<<"GPIOD", "PUPDR">>)
        /\ gpio' = [gpio EXCEPT !["GPIOD"].PUPDR =
                      @ \cap Not(GPIO_PUPDR_PUPD8_Msk \cup GPIO_PUPDR_PUPD9_Msk)]
        /\ Goto("uart3_init_57")
        /\ UNCHANGED <<rcc, usart>>
     \/ /\ At("uart3_init_57")
        /\ Store(<<"GPIOD", "PUPDR">>)
        /\ gpio' = [gpio EXCEPT !["GPIOD"].PUPDR = @ \cup GPIO_PUPDR_PUPD9_0]
        /\ Goto("uart3_init_59")
        /\ UNCHANGED <<rcc, usart>>
     \/ /\ At("uart3_init_59")
        /\ Store(<<"GPIOD", "AFRH">>)
        /\ gpio' = [gpio EXCEPT !["GPIOD"].AFRH =
                      @ \cap Not(GPIO_AFRH_AFSEL8_Msk \cup GPIO_AFRH_AFSEL9_Msk)]
        /\ Goto("uart3_init_60")
        /\ UNCHANGED <<rcc, usart>>
     \/ /\ At("uart3_init_60")
        /\ Store(<<"GPIOD", "AFRH">>)
        /\ gpio' = [gpio EXCEPT !["GPIOD"].AFRH =
                      @ \cup (Shl(Bits(7), GPIO_AFRH_AFSEL8_Pos)
                              \cup Shl(Bits(7), GPIO_AFRH_AFSEL9_Pos))]
        /\ Goto("uart3_init_62")
        /\ UNCHANGED <<rcc, usart>>
     \/ /\ At("uart3_init_62")
        /\ Store(<<"USART3", "CR1">>)
        /\ usart' = [usart EXCEPT !.CR1 = Bits(0)]
        /\ Goto("uart3_init_63")
        /\ UNCHANGED <<rcc, gpio>>
     \/ /\ At("uart3_init_63")
        /\ Store(<<"USART3", "CR2">>)
        /\ usart' = [usart EXCEPT !.CR2 = Bits(0)]
        /\ Goto("uart3_init_64")
        /\ UNCHANGED <<rcc, gpio>>
     \/ /\ At("uart3_init_64")
        /\ Store(<<"USART3", "CR3">>)
        /\ usart' = [usart EXCEPT !.CR3 = Bits(0)]
        /\ Goto("uart3_init_65")
        /\ UNCHANGED <<rcc, gpio>>
     \/ /\ At("uart3_init_65")
        /\ Store(<<"USART3", "BRR">>)
        /\ usart' = [usart EXCEPT !.BRR = USART3_BRR_115200_AT_64MHZ]
        /\ Goto("uart3_init_66")
        /\ UNCHANGED <<rcc, gpio>>
     \/ /\ At("uart3_init_66")
        /\ Store(<<"USART3", "CR1">>)
        /\ usart' = [usart EXCEPT !.CR1 = NUCLEO_CR1_VALUE]
        /\ Return
        /\ UNCHANGED <<rcc, gpio>>

\* fault: the poll does not wait for the flag
TxReady_NoWait == TRUE

\* (USART3->ISR & USART_ISR_TXE_TXFNF) != 0U
TxReady == txe

uart3_write_byte ==
  /\ UNCHANGED <<fw, arg, lap0, loc, regs, tcif, stress_buffer, dmaLog, tcSeen, laps, stores>>
  /\ \/ /\ At("uart3_write_byte_70")
        /\ IF TxReady
           THEN Goto("uart3_write_byte_72")
           ELSE UNCHANGED pc
        /\ sawTXE' = txe
        /\ UNCHANGED <<txe, tdrLog, overrun>>
     \/ /\ At("uart3_write_byte_72")
        /\ TDR_Write(loc.byte)
        /\ Return

nucleo_uart3_write_str ==
  /\ UNCHANGED <<fw, arg, lap0, regs, txe, tcif, stress_buffer, hist, laps, stores>>
  /\ \/ /\ At("uart3_write_str_76")
        /\ IF loc.str[loc.s] # 0
           THEN /\ loc' = [loc EXCEPT !.byte = U8(loc.str[loc.s])]
                /\ Call("uart3_write_byte_70", "uart3_write_str_78")
           ELSE /\ Return
                /\ UNCHANGED loc
     \/ /\ At("uart3_write_str_78")
        /\ loc' = [loc EXCEPT !.s = @ + 1]
        /\ Goto("uart3_write_str_76")

\* fault: the digit loop stops one entry before the end of buf
DecLoopCond_Short(value, i) == ~U32Zero(value) /\ i < BUF_SIZE - 1

\* value > 0U && i < (uint32_t)sizeof(buf)
DecLoopCond(value, i) == ~U32Zero(value) /\ i < BUF_SIZE

uart3_write_u32_dec ==
  /\ UNCHANGED <<fw, arg, lap0, regs, txe, tcif, stress_buffer, hist, laps, stores>>
  /\ \/ /\ At("uart3_write_u32_dec_84")
        /\ loc' = [loc EXCEPT !.buf = [k \in 0..(BUF_SIZE - 1) |-> Uninit],
                              !.i = 0]
        /\ Goto("uart3_write_u32_dec_86")
     \/ /\ At("uart3_write_u32_dec_86")
        /\ IF U32Zero(loc.value)
           THEN /\ loc' = [loc EXCEPT !.byte = U8(48)]
                /\ Call("uart3_write_byte_70", "uart3_write_u32_dec_88")
           ELSE /\ Goto("uart3_write_u32_dec_91")
                /\ UNCHANGED loc
     \/ /\ At("uart3_write_u32_dec_88")
        /\ Return
        /\ UNCHANGED loc
     \/ /\ At("uart3_write_u32_dec_91")
        /\ IF DecLoopCond(loc.value, loc.i)
           THEN Goto("uart3_write_u32_dec_92")
           ELSE Goto("uart3_write_u32_dec_96")
        /\ UNCHANGED loc
     \/ \* lines 92-93, one iteration of the digit loop
        /\ At("uart3_write_u32_dec_92")
        /\ loc' = [loc EXCEPT !.buf[loc.i] = 48 + U32Mod10(loc.value),
                              !.i = @ + 1,
                              !.value = U32Div10(@)]
        /\ Goto("uart3_write_u32_dec_91")
     \/ /\ At("uart3_write_u32_dec_96")
        /\ IF loc.i > 0
           THEN Goto("uart3_write_u32_dec_97")
           ELSE Return
        /\ UNCHANGED loc
     \/ \* lines 97-98: i--, then the call of uart3_write_byte(buf[i])
        /\ At("uart3_write_u32_dec_97")
        /\ loc' = [loc EXCEPT !.i = @ - 1, !.byte = U8(loc.buf[loc.i - 1])]
        /\ Call("uart3_write_byte_70", "uart3_write_u32_dec_96")

\* fault: the reset half of BSRR taken to start at bit 15
LedBsrr_Off15(on, pin) ==
  IF on # 0 THEN Shl(Bits(1), pin) ELSE Shl(Bits(1), pin + 15)

\* the value led_write stores to the BSRR of a port for pin `pin`
LedBsrr(on, pin) ==
  IF on # 0 THEN Shl(Bits(1), pin) ELSE Shl(Bits(1), pin + 16)

led_write ==
  /\ UNCHANGED <<fw, arg, lap0, loc, rcc, usart, dma, txe, tcif, stress_buffer,
                 hist, laps>>
  /\ \/ /\ At("led_write_103")
        /\ UNCHANGED stores
        /\ gpio' = [gpio EXCEPT !["GPIOB"].ODR =
                      BSRR_Write(@, LedBsrr(loc.on, LED1_PIN))]
        /\ Goto("led_write_104")
     \/ /\ At("led_write_104")
        /\ UNCHANGED stores
        /\ gpio' = [gpio EXCEPT !["GPIOF"].ODR =
                      BSRR_Write(@, LedBsrr(loc.on, LED2_PIN))]
        /\ Goto("led_write_105")
     \/ /\ At("led_write_105")
        /\ UNCHANGED stores
        /\ gpio' = [gpio EXCEPT !["GPIOG"].ODR =
                      BSRR_Write(@, LedBsrr(loc.on, LED3_PIN))]
        /\ Return

Xor(a, b) == (a \ b) \cup (b \ a)

\* fault: the cycle starts again at the top of main
LoopHead_Top == "main_109"

\* while (1): the statement the cycle starts again at
LoopHead == "main_124"

nucleo_main ==
  /\ UNCHANGED <<fw, arg, lap0, usart, dma, txe, tcif, stress_buffer, dmaLog, sawTXE,
                 tcSeen, overrun>>
  /\ \/ /\ At("main_109")
        /\ Store(<<"RCC", "AHB2ENR">>)
        /\ rcc' = [rcc EXCEPT !.AHB2ENR =
                     @ \cup (RCC_AHB2ENR_GPIOBEN \cup RCC_AHB2ENR_GPIOCEN
                             \cup RCC_AHB2ENR_GPIOFEN \cup RCC_AHB2ENR_GPIOGEN)]
        /\ Goto("main_111")
        /\ UNCHANGED <<loc, gpio, tdrLog, laps>>
     \/ /\ At("main_111")
        /\ loc' = [loc EXCEPT !.cfg_gpio = "GPIOB", !.cfg_pin = LED1_PIN]
        /\ Call("gpio_config_output_30", "main_112")
        /\ UNCHANGED <<rcc, gpio, tdrLog, laps>>
        /\ UNCHANGED stores
     \/ /\ At("main_112")
        /\ loc' = [loc EXCEPT !.cfg_gpio = "GPIOF", !.cfg_pin = LED2_PIN]
        /\ Call("gpio_config_output_30", "main_113")
        /\ UNCHANGED <<rcc, gpio, tdrLog, laps>>
        /\ UNCHANGED stores
     \/ /\ At("main_113")
        /\ loc' = [loc EXCEPT !.cfg_gpio = "GPIOG", !.cfg_pin = LED3_PIN]
        /\ Call("gpio_config_output_30", "main_114")
        /\ UNCHANGED <<rcc, gpio, tdrLog, laps>>
        /\ UNCHANGED stores
     \/ /\ At("main_114")
        /\ loc' = [loc EXCEPT !.cfg_gpio = "GPIOC", !.cfg_pin = BTN_PIN]
        /\ Call("gpio_config_input_pullup_40", "main_116")
        /\ UNCHANGED <<rcc, gpio, tdrLog, laps>>
        /\ UNCHANGED stores
     \/ /\ At("main_116")
        /\ Call("uart3_init_45", "main_118")
        /\ UNCHANGED <<loc, rcc, gpio, tdrLog, laps>>
        /\ UNCHANGED stores
     \/ /\ At("main_118")
        /\ loc' = [loc EXCEPT !.str = STR_BANNER, !.s = 1]
        /\ Call("uart3_write_str_76", "main_120")
        /\ UNCHANGED <<rcc, gpio, tdrLog, laps>>
        /\ UNCHANGED stores
     \/ /\ At("main_120")
        /\ loc' = [loc EXCEPT !.blink_count = U32Of(0)]
        /\ Goto("main_121")
        /\ UNCHANGED <<rcc, gpio, tdrLog, laps>>
        /\ UNCHANGED stores
     \/ /\ At("main_121")
        /\ loc' = [loc EXCEPT !.led_on = 0]
        /\ Goto("main_124")
        /\ UNCHANGED <<rcc, gpio, tdrLog, laps>>
        /\ UNCHANGED stores
     \/ \* a new iteration: the log of CPU bytes starts again
        /\ At("main_124")
        /\ laps < MaxLaps
        /\ laps' = laps + 1
        /\ tdrLog' = <<>>
        /\ loc' = [loc EXCEPT !.led_on = Val(Xor(Bits(@), Bits(1)))]
        /\ Goto("main_125")
        /\ UNCHANGED <<rcc, gpio>>
        /\ UNCHANGED stores
     \/ /\ At("main_125")
        /\ loc' = [loc EXCEPT !.on = loc.led_on]
        /\ Call("led_write_103", "main_127")
        /\ UNCHANGED <<rcc, gpio, tdrLog, laps>>
        /\ UNCHANGED stores
     \/ /\ At("main_127")
        /\ loc' = [loc EXCEPT !.btn =
                     Val(Shr(gpio["GPIOC"].IDR, BTN_PIN) \cap Bits(1))]
        /\ Goto("main_129")
        /\ UNCHANGED <<rcc, gpio, tdrLog, laps>>
        /\ UNCHANGED stores
     \/ /\ At("main_129")
        /\ loc' = [loc EXCEPT !.str = STR_BLINK, !.s = 1]
        /\ Call("uart3_write_str_76", "main_130")
        /\ UNCHANGED <<rcc, gpio, tdrLog, laps>>
        /\ UNCHANGED stores
     \/ /\ At("main_130")
        /\ loc' = [loc EXCEPT !.value = loc.blink_count]
        /\ Call("uart3_write_u32_dec_84", "main_131")
        /\ UNCHANGED <<rcc, gpio, tdrLog, laps>>
        /\ UNCHANGED stores
     \/ /\ At("main_131")
        /\ loc' = [loc EXCEPT !.str = STR_PB0, !.s = 1]
        /\ Call("uart3_write_str_76", "main_132")
        /\ UNCHANGED <<rcc, gpio, tdrLog, laps>>
        /\ UNCHANGED stores
     \/ /\ At("main_132")
        /\ loc' = [loc EXCEPT !.value = U32Of(loc.led_on)]
        /\ Call("uart3_write_u32_dec_84", "main_133")
        /\ UNCHANGED <<rcc, gpio, tdrLog, laps>>
        /\ UNCHANGED stores
     \/ /\ At("main_133")
        /\ loc' = [loc EXCEPT !.str = STR_PF4, !.s = 1]
        /\ Call("uart3_write_str_76", "main_134")
        /\ UNCHANGED <<rcc, gpio, tdrLog, laps>>
        /\ UNCHANGED stores
     \/ /\ At("main_134")
        /\ loc' = [loc EXCEPT !.value = U32Of(loc.led_on)]
        /\ Call("uart3_write_u32_dec_84", "main_135")
        /\ UNCHANGED <<rcc, gpio, tdrLog, laps>>
        /\ UNCHANGED stores
     \/ /\ At("main_135")
        /\ loc' = [loc EXCEPT !.str = STR_PG4, !.s = 1]
        /\ Call("uart3_write_str_76", "main_136")
        /\ UNCHANGED <<rcc, gpio, tdrLog, laps>>
        /\ UNCHANGED stores
     \/ /\ At("main_136")
        /\ loc' = [loc EXCEPT !.value = U32Of(loc.led_on)]
        /\ Call("uart3_write_u32_dec_84", "main_137")
        /\ UNCHANGED <<rcc, gpio, tdrLog, laps>>
        /\ UNCHANGED stores
     \/ /\ At("main_137")
        /\ loc' = [loc EXCEPT !.str = STR_BTN13, !.s = 1]
        /\ Call("uart3_write_str_76", "main_138")
        /\ UNCHANGED <<rcc, gpio, tdrLog, laps>>
        /\ UNCHANGED stores
     \/ /\ At("main_138")
        /\ loc' = [loc EXCEPT !.value = U32Of(loc.btn)]
        /\ Call("uart3_write_u32_dec_84", "main_139")
        /\ UNCHANGED <<rcc, gpio, tdrLog, laps>>
        /\ UNCHANGED stores
     \/ /\ At("main_139")
        /\ loc' = [loc EXCEPT !.str = STR_CRLF, !.s = 1]
        /\ Call("uart3_write_str_76", "main_141")
        /\ UNCHANGED <<rcc, gpio, tdrLog, laps>>
        /\ UNCHANGED stores
     \/ /\ At("main_141")
        /\ loc' = [loc EXCEPT !.blink_count = U32Inc(@)]
        /\ Goto("main_142")
        /\ UNCHANGED <<rcc, gpio, tdrLog, laps>>
        /\ UNCHANGED stores
     \/ /\ At("main_142")
        /\ loc' = [loc EXCEPT !.cycles = DELAY_CYCLES]
        /\ Call("delay_cycles_21", LoopHead)
        /\ UNCHANGED <<rcc, gpio, tdrLog, laps>>
        /\ UNCHANGED stores

\* the level of input pin PC13 (the user button) changes
Button ==
  /\ fw = "nucleo"
  /\ gpio' = [gpio EXCEPT !["GPIOC"].IDR = Xor(@, Shl(Bits(1), BTN_PIN))]
  /\ UNCHANGED <<fw, arg, lap0, pc, loc, rcc, usart, dma, txe, tcif, stress_buffer,
                 hist, laps, stores>>

(***************************************************************************)
(* arm-c-hello/src/main.c: the string output routines.  The UART of this   *)
(* example has a data register only; the bytes stored to it are logged in  *)
(* tdrLog.                                                                 *)
(***************************************************************************)
\* uart_putc: UART_DR = c, without a poll
uart_putc ==
  /\ At("uart_putc_20")
  /\ tdrLog' = Append(tdrLog, loc.byte)
  /\ Return
  /\ UNCHANGED <<fw, arg, lap0, loc, regs, txe, tcif, stress_buffer, dmaLog,
                 sawTXE, tcSeen, overrun, laps, stores>>

\* fault: the test of a signed char, while (*s > 0)
PutsCond_Signed(c) == c # 0 /\ c < 128

\* while (*s)
PutsCond(c) == c # 0

\* uart_puts: line 24 tests *s, line 25 calls uart_putc(*s++)
uart_puts ==
  /\ UNCHANGED <<fw, arg, lap0, regs, txe, tcif, stress_buffer, hist, laps,
                 stores>>
  /\ \/ /\ At("uart_puts_24")
        /\ IF PutsCond(loc.str[loc.s])
           THEN Goto("uart_puts_25")
           ELSE Return
        /\ UNCHANGED loc
     \/ /\ At("uart_puts_25")
        /\ loc' = [loc EXCEPT !.byte = U8(loc.str[loc.s]), !.s = @ + 1]
        /\ Call("uart_putc_20", "uart_puts_24")

(***************************************************************************)
(* Specification.                                                          *)
(***************************************************************************)
\* the registers as main() of the periodic-report firmware leaves them
\* before its loop, from reset pattern p
ConfiguredRcc ==
  [AHB1ENR |-> {}, AHB2ENR |-> {1, 2, 3, 5, 6}, APB1LENR |-> {18},
   CCIPR1 |-> {}]

ConfiguredUsart ==
  [CR1 |-> {0, 2, 3}, CR2 |-> {}, CR3 |-> {},
   BRR |-> USART3_BRR_115200_AT_64MHZ]

ConfiguredGpio(p) ==
  [g \in Ports |->
     CASE g = "GPIOB" ->
            [GpioReset(p) EXCEPT !.MODER = (p \ {0, 1}) \cup {0},
                                 !.OTYPER = p \ {0},
                                 !.OSPEEDR = (p \ {0, 1}) \cup {0},
                                 !.PUPDR = p \ {0, 1}]
       [] g \in {"GPIOF", "GPIOG"} ->
            [GpioReset(p) EXCEPT !.MODER = (p \ {8, 9}) \cup {8},
                                 !.OTYPER = p \ {4},
                                 !.OSPEEDR = (p \ {8, 9}) \cup {8},
                                 !.PUPDR = p \ {8, 9}]
       [] g = "GPIOC" ->
            [GpioReset(p) EXCEPT !.MODER = p \ {26, 27},
                                 !.PUPDR = (p \ {26, 27}) \cup {26}]
       [] g = "GPIOD" ->
            [GpioReset(p) EXCEPT !.MODER = (p \ {16, 17, 18, 19}) \cup {17, 19},
                                 !.OTYPER = p \ {8, 9},
                                 !.OSPEEDR = p \cup {16, 17, 18, 19},
                                 !.PUPDR = (p \ {16, 17, 18, 19}) \cup {18},
                                 !.AFRH = (p \ (0..7)) \cup {0, 1, 2, 4, 5, 6}]]

\* the configuration-register stores of main() before its loop, in order
NucleoInitStores ==
  <<<<"RCC", "AHB2ENR">>,
    <<"GPIOB", "MODER">>,
    <<"GPIOB", "OTYPER">>,
    <<"GPIOB", "OSPEEDR">>,
    <<"GPIOB", "PUPDR">>,
    <<"GPIOF", "MODER">>,
    <<"GPIOF", "OTYPER">>,
    <<"GPIOF", "OSPEEDR">>,
    <<"GPIOF", "PUPDR">>,
    <<"GPIOG", "MODER">>,
    <<"GPIOG", "OTYPER">>,
    <<"GPIOG", "OSPEEDR">>,
    <<"GPIOG", "PUPDR">>,
    <<"GPIOC", "MODER">>,
    <<"GPIOC", "PUPDR">>,
    <<"RCC", "AHB2ENR">>,
    <<"RCC", "APB1LENR">>,
    <<"RCC", "CCIPR1">>,
    <<"GPIOD", "MODER">>,
    <<"GPIOD", "MODER">>,
    <<"GPIOD", "OTYPER">>,
    <<"GPIOD", "OSPEEDR">>,
    <<"GPIOD", "PUPDR">>,
    <<"GPIOD", "PUPDR">>,
    <<"GPIOD", "AFRH">>,
    <<"GPIOD", "AFRH">>,
    <<"USART3", "CR1">>,
    <<"USART3", "CR2">>,
    <<"USART3", "CR3">>,
    <<"USART3", "BRR">>,
    <<"USART3", "CR1">>>>

InitHistory ==
  /\ tdrLog = <<>>
  /\ dmaLog = <<>>
  /\ sawTXE = FALSE
  /\ tcSeen = FALSE
  /\ overrun = FALSE
  /\ laps = 0

\* reset, the entry of main()
InitNucleo ==
  /\ InitCommon
  /\ fw = "nucleo"
  /\ pc = <<"main_109">>

InitHil ==
  /\ InitCommon
  /\ fw = "hil"
  /\ pc = <<"hil_main_46">>

\* the periodic-report firmware at the head of its loop after 2^32 - 2
\* iterations (button low in the last one): the counter is about to wrap
InitNucleoLate ==
  /\ fw = "nucleo"
  /\ arg = U32Of(0)
  /\ lap0 = [hi |-> Half - 1, lo |-> Half - 2]
  /\ pc = <<"main_124">>
  /\ loc = [LocReset EXCEPT !.blink_count = [hi |-> Half - 1, lo |-> Half - 2],
                            !.str = STR_CRLF, !.s = 3, !.byte = 10,
                            !.cfg_gpio = "GPIOC", !.cfg_pin = BTN_PIN]
  /\ rcc = ConfiguredRcc
  /\ \E p \in ResetPatterns : gpio = ConfiguredGpio(p)
  /\ usart = ConfiguredUsart
  /\ dma = DmaReset
  /\ txe = TRUE
  /\ tcif = FALSE
  /\ stress_buffer = [k \in 0..(STRESS_BUFFER_SIZE - 1) |-> 0]
  /\ InitHistory
  /\ stores = NucleoInitStores

\* arguments of uart3_write_u32_dec examined on their own: every
\* combination of these upper and lower halves
DecHi == {0, 1, 15, 152, 1525, 15258, 32768, 65535}

DecLo == {0, 1, 9, 10, 99, 100, 999, 1000, 9999, 10000, 16960, 38528,
          51711, 51712, 57600, 65535}

DecInputs == {[hi |-> h, lo |-> l] : h \in DecHi, l \in DecLo}

\* a call uart3_write_u32_dec(arg) with the UART initialised
InitDec ==
  /\ fw = "dec"
  /\ arg \in DecInputs
  /\ lap0 = U32Of(0)
  /\ pc = <<"uart3_write_u32_dec_84", "done">>
  /\ loc = [LocReset EXCEPT !.value = arg]
  /\ rcc = ConfiguredRcc
  /\ gpio = ConfiguredGpio({})
  /\ usart = ConfiguredUsart
  /\ dma = DmaReset
  /\ txe = TRUE
  /\ tcif = FALSE
  /\ stress_buffer = [k \in 0..(STRESS_BUFFER_SIZE - 1) |-> 0]
  /\ InitHistory
  /\ stores = NucleoInitStores

Init == InitNucleo \/ InitNucleoLate \/ InitHil

NextHil ==
  \/ hil_main
  \/ hil_uart3_init
  \/ dma1_init
  \/ hil_uart3_write_str
  \/ UartTx
  \/ DmaTransfer

NextNucleo ==
  \/ nucleo_main
  \/ gpio_config_output
  \/ gpio_config_input_pullup
  \/ nucleo_uart3_init
  \/ uart3_write_byte
  \/ nucleo_uart3_write_str
  \/ uart3_write_u32_dec
  \/ led_write
  \/ delay_cycles
  \/ UartTx
  \/ Button

NextDec ==
  \/ uart3_write_u32_dec
  \/ uart3_write_byte
  \/ UartTx

Next == NextHil \/ NextNucleo

\* both firmwares
Spec == Init /\ [][Next]_vars

\* the stress-test firmware
SpecHil == InitHil /\ [][NextHil]_vars

\* the periodic-report firmware
SpecNucleo == (InitNucleo \/ InitNucleoLate) /\ [][NextNucleo]_vars

\* uart3_write_u32_dec on its own
SpecDec == InitDec /\ [][NextDec]_vars

\* prior contents of a GPIO configuration register: every two-bit field
\* 00, 11, 01 or 10
CfgPatterns ==
  {{}, Word, {k \in Word : k % 2 = 0}, {k \in Word : k % 2 = 1}}

CfgPins == 0..15

\* the inputs of a call of gpio_config_output or gpio_config_input_pullup
CfgInputs ==
  {[fn |-> f, pin |-> p,
    prior |-> [MODER |-> a, OTYPER |-> b, OSPEEDR |-> c, PUPDR |-> d,
               AFRH |-> {}, ODR |-> {}, IDR |-> {}]] :
     f \in {"gpio_config_output_30", "gpio_config_input_pullup_40"},
     p \in CfgPins, a \in CfgPatterns, b \in CfgPatterns,
     c \in CfgPatterns, d \in CfgPatterns}

\* a call gpio_config_output(GPIOB, pin) or
\* gpio_config_input_pullup(GPIOB, pin), every port holding the prior
\* contents
InitCfg ==
  /\ fw = "cfg"
  /\ arg \in CfgInputs
  /\ lap0 = U32Of(0)
  /\ pc = <<arg.fn, "done">>
  /\ loc = [LocReset EXCEPT !.cfg_gpio = "GPIOB", !.cfg_pin = arg.pin]
  /\ rcc = ConfiguredRcc
  /\ gpio = [g \in Ports |-> arg.prior]
  /\ usart = [CR1 |-> {}, CR2 |-> {}, CR3 |-> {}, BRR |-> 0]
  /\ dma = DmaReset
  /\ txe = TRUE
  /\ tcif = FALSE
  /\ stress_buffer = [k \in 0..(STRESS_BUFFER_SIZE - 1) |-> 0]
  /\ InitHistory
  /\ stores = <<>>

NextCfg ==
  \/ gpio_config_output
  \/ gpio_config_input_pullup

\* gpio_config_output and gpio_config_input_pullup on their own
SpecCfg == InitCfg /\ [][NextCfg]_vars

\* the bytes a string in memory may hold
StrBytes == {0, 65, 255}

\* memory holding a null-terminated string: up to MaxStrLen bytes, any of
\* them NUL, and a NUL after them
StrMems ==
  UNION {{m \o <<0>> : m \in [1..n -> StrBytes]} : n \in 0..MaxStrLen}

\* the string-write routines: uart3_write_str of the periodic-report
\* firmware, uart3_write_str of the stress test, uart_puts of the hello
\* example
StrRoutines == {"uart3_write_str_76", "hil_uart3_write_str_38", "uart_puts_24"}

\* a call of a string-write routine on a string in memory, the UART
\* initialised
InitStr ==
  /\ fw = "str"
  /\ arg \in {[fn |-> f, mem |-> m] : f \in StrRoutines, m \in StrMems}
  /\ lap0 = U32Of(0)
  /\ pc = <<arg.fn, "done">>
  /\ loc = [LocReset EXCEPT !.str = arg.mem, !.s = 1]
  /\ rcc = ConfiguredRcc
  /\ gpio = ConfiguredGpio({})
  /\ usart = ConfiguredUsart
  /\ dma = DmaReset
  /\ txe = TRUE
  /\ tcif = FALSE
  /\ stress_buffer = [k \in 0..(STRESS_BUFFER_SIZE - 1) |-> 0]
  /\ InitHistory
  /\ stores = NucleoInitStores

NextStr ==
  \/ nucleo_uart3_write_str
  \/ uart3_write_byte
  \/ hil_uart3_write_str
  \/ uart_puts
  \/ uart_putc
  \/ UartTx

\* the string-write routines on their own
SpecStr == InitStr /\ [][NextStr]_vars

\* the statements of the stress-test firmware
HilCpu ==
  \/ hil_main
  \/ hil_uart3_init
  \/ dma1_init
  \/ hil_uart3_write_str

\* the stress-test firmware on a CPU that keeps executing, a UART that
\* shifts out every byte it is given and a DMA channel that serves every
\* request of the UART
SpecHilFair ==
  /\ InitHil
  /\ [][NextHil]_vars
  /\ WF_vars(HilCpu)
  /\ WF_vars(UartTx)
  /\ WF_vars(DmaTransfer)

\* the statements of the periodic-report firmware
NucleoCpu ==
  \/ nucleo_main
  \/ gpio_config_output
  \/ gpio_config_input_pullup
  \/ nucleo_uart3_init
  \/ uart3_write_byte
  \/ nucleo_uart3_write_str
  \/ uart3_write_u32_dec
  \/ led_write
  \/ delay_cycles

\* the periodic-report firmware on a CPU that keeps executing and a UART
\* that shifts out every byte it is given
SpecNucleoFair ==
  /\ InitNucleo \/ InitNucleoLate
  /\ [][NextNucleo]_vars
  /\ WF_vars(NucleoCpu)
  /\ WF_vars(UartTx)

(***************************************************************************)
(* Properties.                                                             *)
(***************************************************************************)
Range(q) == {q[k] : k \in DOMAIN q}

\* the first position of r in the store log, 0 when r was never stored
FirstStore(r) ==
  IF r \in Range(stores)
  THEN CHOOSE k \in DOMAIN stores :
         stores[k] = r /\ \A j \in 1..(k - 1) : stores[j] # r
  ELSE 0

\* r1 was stored, and before the first store to r2
StoredBefore(r1, r2) ==
  /\ FirstStore(r1) > 0
  /\ FirstStore(r2) > 0 => FirstStore(r1) < FirstStore(r2)

\* the CPU stores a byte to the USART3 transmit data register in this step
CpuTdrWrite == Len(tdrLog') = Len(tdrLog) + 1

\* the number written by the decimal digits d, with the overflow of 32 bits
RECURSIVE DigitsValue(_)
DigitsValue(d) ==
  IF d = <<>> THEN [hi |-> 0, lo |-> 0, ovf |-> FALSE]
  ELSE LET q == DigitsValue(SubSeq(d, 1, Len(d) - 1))
           x == q.lo * 10 + (d[Len(d)] - 48)
           h == q.hi * 10 + (x \div Half)
       IN [hi |-> h % Half, lo |-> x % Half, ovf |-> q.ovf \/ h >= Half]

\* d is the decimal representation of v in ASCII, no leading zero
IsDecimalOf(d, v) ==
  /\ Len(d) >= 1
  /\ \A k \in 1..Len(d) : d[k] \in 48..57
  /\ Len(d) > 1 => d[1] # 48
  /\ LET r == DigitsValue(d) IN ~r.ovf /\ r.hi = v.hi /\ r.lo = v.lo

\* C1: uart3_write_u32_dec(v) writes to the data register exactly the
\* decimal digits of v, most significant first, without a leading zero and
\* nothing else; the single character '0' for v = 0.
C1_DecimalDigits ==
  pc = <<"done">> =>
    /\ IsDecimalOf(tdrLog, arg)
    /\ U32Zero(arg) => tdrLog = <<48>>
    /\ stores = NucleoInitStores
    /\ dmaLog = <<>>

\* the call with the largest argument, 4294967295, has returned
C1_Witness ==
  /\ pc = <<"done">>
  /\ arg = [hi |-> Half - 1, lo |-> Half - 1]
  /\ Len(tdrLog) = 10

\* the pin led_write and the stress test drive on each port
LedPins(g) ==
  CASE g = "GPIOB" -> {0}
    [] g \in {"GPIOF", "GPIOG"} -> {4}
    [] OTHER -> {}

\* the port whose BSRR the statement at the head of pc stores to
BsrrTarget ==
  CASE At("led_write_103") \/ At("hil_main_54") \/ At("hil_main_64") -> {"GPIOB"}
    [] At("led_write_104") -> {"GPIOF"}
    [] At("led_write_105") -> {"GPIOG"}
    [] OTHER -> {}

Level(g, pin) == IF pin \in gpio[g].ODR THEN 1 ELSE 0

\* C2: a pin write through BSRR changes the output level of the addressed
\* pin only, every other output bit of the ports keeps its level, and the
\* addressed pin reads back high after write(true), low after write(false).
C2_PinIsolation ==
  /\ [][\A g \in Ports :
          gpio'[g].ODR # gpio[g].ODR =>
            /\ g \in BsrrTarget
            /\ Xor(gpio'[g].ODR, gpio[g].ODR) \subseteq LedPins(g)]_vars
  /\ [](At("main_127") =>
          /\ loc.on \in {0, 1}
          /\ Level("GPIOB", 0) = loc.on
          /\ Level("GPIOF", 4) = loc.on
          /\ Level("GPIOG", 4) = loc.on)
  /\ [](At("hil_main_55") => Level("GPIOB", 0) = 1)
  /\ [](At("hil_main_67") => Level("GPIOB", 0) = 0)

\* led_write(0) has returned after an earlier led_write(1)
C2_Witness ==
  /\ At("main_127")
  /\ laps = 2
  /\ loc.on = 0
  /\ Level("GPIOB", 0) = 0

\* C3: when the completion poll observes the transfer-complete flag, the
\* bytes the DMA engine delivered to the transmit data register are exactly
\* stress_buffer[0] .. stress_buffer[N-1], in index order, each once.
C3_DmaDelivery ==
  tcSeen =>
    /\ Len(dmaLog) = STRESS_BUFFER_SIZE
    /\ \A k \in 1..Len(dmaLog) : dmaLog[k] = stress_buffer[k - 1]

\* the poll has just observed the flag
C3_Witness ==
  /\ At("hil_main_63")
  /\ tcSeen
  /\ Len(dmaLog) = STRESS_BUFFER_SIZE

\* "HIL Stress Test Started\r\n"
TextStarted ==
  <<72, 73, 76, 32, 83, 116, 114, 101, 115, 115, 32, 84, 101, 115, 116,
  32, 83, 116, 97, 114, 116, 101, 100, 13, 10>>

\* "HIL Stress Test Passed\r\n"
TextPassed ==
  <<72, 73, 76, 32, 83, 116, 114, 101, 115, 115, 32, 84, 101, 115, 116,
  32, 80, 97, 115, 115, 101, 100, 13, 10>>

\* the breakpoint has been executed
Halted == At("hil_main_69")

\* C4: a run that reaches the breakpoint has written the Started banner and
\* then the Passed banner, each complete and once, and has reset PB0 after
\* the Passed banner and before the breakpoint.
C4_Banners ==
  /\ []((At("hil_main_67") \/ Halted) =>
          /\ tdrLog = TextStarted \o TextPassed
          /\ Level("GPIOB", 0) = 0)
  /\ [][(Level("GPIOB", 0)' # Level("GPIOB", 0) /\ Level("GPIOB", 0)' = 0) =>
          /\ tdrLog = TextStarted \o TextPassed
          /\ ~Halted /\ ~Halted']_vars

C4_Witness ==
  /\ Halted
  /\ Len(tdrLog) = Len(TextStarted) + Len(TextPassed)

\* v + k modulo 2^32, for 0 <= k < 2^16
U32Sum(v, k) ==
  [hi |-> (v.hi + ((v.lo + k) \div Half)) % Half, lo |-> (v.lo + k) % Half]

\* the number of the status line of the current iteration
LineNo == U32Sum(lap0, laps - 1)

\* the status line is complete and the next iteration has not begun
LineDone ==
  laps >= 1 /\ (At("main_141") \/ At("main_142") \/ At("delay_cycles_21"))

\* the digits of the counter in a complete status line
LineDigits == SubSeq(tdrLog, 7, Len(tdrLog) - 28)

\* "BLINK <d> PB0=<b> PF4=<b> PG4=<b> BTN13=<s>\r\n"
StatusLine(d, b, s) ==
  <<66, 76, 73, 78, 75, 32>> \o d
    \o <<32, 80, 66, 48, 61>> \o <<48 + b>>
    \o <<32, 80, 70, 52, 61>> \o <<48 + b>>
    \o <<32, 80, 71, 52, 61>> \o <<48 + b>>
    \o <<32, 66, 84, 78, 49, 51, 61>> \o <<48 + s>>
    \o <<13, 10>>

\* "BLINK 0 PB0=1 PF4=1 PG4=1 BTN13=0\r\n"
FirstLineLow ==
  <<66, 76, 73, 78, 75, 32, 48, 32, 80, 66, 48, 61, 49, 32, 80, 70, 52,
  61, 49, 32, 80, 71, 52, 61, 49, 32, 66, 84, 78, 49, 51, 61, 48, 13, 10>>

\* C5: the n-th status line (n from 0, modulo 2^32) is
\* "BLINK <n> PB0=<b> PF4=<b> PG4=<b> BTN13=<s>\r\n", b = 1 for even n and
\* 0 for odd n, s the level of PC13 sampled in that iteration; the first
\* line with the pin low is "BLINK 0 PB0=1 PF4=1 PG4=1 BTN13=0\r\n".
C5_StatusLine ==
  /\ [](LineDone =>
          /\ Len(tdrLog) >= 29
          /\ IsDecimalOf(LineDigits, LineNo)
          /\ loc.btn \in {0, 1}
          /\ tdrLog = StatusLine(LineDigits,
                                 IF LineNo.lo % 2 = 0 THEN 1 ELSE 0, loc.btn)
          /\ (U32Zero(LineNo) /\ loc.btn = 0) => tdrLog = FirstLineLow)
  /\ [][(At("main_127") /\ pc' # pc) =>
          loc'.btn = (IF 13 \in gpio["GPIOC"].IDR THEN 1 ELSE 0)]_vars

\* the first line of a run from reset, the pin sampled low
C5_Witness ==
  /\ LineDone
  /\ U32Zero(lap0)
  /\ laps = 1
  /\ loc.btn = 0
  /\ tdrLog = FirstLineLow

\* the CPU is at a poll of the transmit-buffer-empty flag
AtPoll == At("uart3_write_byte_70") \/ At("hil_uart3_write_str_39")

\* C6: the polled byte write blocks without a timeout: the CPU writes a
\* byte to the transmit data register only after it has read the status
\* register with the flag set since its previous write, and while the flag
\* is clear the write does not happen and the poll is not left.
C6_PolledWrite ==
  [][/\ CpuTdrWrite => sawTXE
     /\ (AtPoll /\ ~txe) => (pc' = pc /\ tdrLog' = tdrLog)]_vars

\* the CPU is held in the poll after an earlier write
C6_Witness ==
  /\ AtPoll
  /\ ~txe
  /\ ~sawTXE
  /\ Len(tdrLog) > 0

\* the DMA channel is enabled
DmaEnabled == DMA_CCR_EN \subseteq dma.CCR

\* C7: from the enabling of the DMA channel until the CPU observes the
\* transfer-complete flag, the CPU writes nothing to the USART3 transmit
\* data register.
C7_SingleWriter ==
  [][CpuTdrWrite => ~(DmaEnabled /\ ~tcSeen)]_vars

\* C8: whenever the DMA channel-enable bit is set, CR3.DMAT and the UART
\* enable and transmit-enable bits are set, and were before the channel
\* was started.
C8_DmatBeforeEnable ==
  DmaEnabled =>
    /\ USART_CR3_DMAT \subseteq usart.CR3
    /\ USART_CR1_UE \subseteq usart.CR1
    /\ USART_CR1_TE \subseteq usart.CR1
    /\ StoredBefore(<<"USART3", "CR3">>, <<"DMA1_Channel1", "CCR">>)
    /\ StoredBefore(<<"USART3", "CR1">>, <<"DMA1_Channel1", "CCR">>)

\* the channel has just been started
C8_Witness ==
  /\ DmaEnabled
  /\ At("hil_main_54")

\* s is a prefix of q
IsPrefix(s, q) == Len(s) <= Len(q) /\ SubSeq(q, 1, Len(s)) = s

\* the buffer holds the test pattern
BufferFilled ==
  \A k \in DOMAIN stress_buffer : stress_buffer[k] = k % 256

\* C9: the stress test fills the buffer, signals "test started" on the pin
\* and over the UART, starts the DMA transfer, awaits completion, reports
\* passed, clears the pin and halts, in this order: the pin is set and the
\* Started banner written before the DMA channel is enabled.
C9_Order ==
  /\ DmaEnabled => BufferFilled
  /\ (DmaEnabled /\ ~tcSeen) =>
       (Level("GPIOB", 0) = 1 /\ IsPrefix(TextStarted, tdrLog))
  /\ Len(tdrLog) > Len(TextStarted) => tcSeen
  /\ Halted => (tcSeen /\ Level("GPIOB", 0) = 0)

\* the UART is enabled
UartEnabled == USART_CR1_UE \subseteq usart.CR1

\* the USART3 clock, the GPIOD clock and the PD8 alternate function (AF7)
\* are written
Pd8Muxed ==
  /\ RCC_APB1LENR_USART3EN \subseteq rcc.APB1LENR
  /\ RCC_AHB2ENR_GPIODEN \subseteq rcc.AHB2ENR
  /\ gpio["GPIOD"].MODER \cap {16, 17} = {17}
  /\ gpio["GPIOD"].AFRH \cap (0..3) = {0, 1, 2}

\* the baud divisor is written in this step
BrrWrite ==
  /\ Len(stores') = Len(stores) + 1
  /\ stores'[Len(stores')] = <<"USART3", "BRR">>

\* the three control registers were cleared by stores, before the divisor
ControlCleared ==
  /\ <<"USART3", "CR1">> \in Range(stores)
  /\ <<"USART3", "CR2">> \in Range(stores)
  /\ <<"USART3", "CR3">> \in Range(stores)
  /\ usart.CR1 = {} /\ usart.CR2 = {} /\ usart.CR3 = {}

\* C10 as stated: in both firmwares UART init first disables the UART and
\* clears the three control registers, writes the divisor 556 while the
\* UART is disabled, ends with TE, RE and UE set, and sets UE only after
\* the clock enables and the PD8 AF7 mux are written.
C10_Original ==
  /\ [][BrrWrite => (ControlCleared /\ usart'.BRR = 556)]_vars
  /\ [](UartEnabled =>
          /\ usart.CR1 = USART_CR1_TE \cup USART_CR1_RE \cup USART_CR1_UE
          /\ usart.BRR = 556
          /\ Pd8Muxed)

\* C10 amended: the periodic-report firmware does all of that; the
\* stress-test firmware clears no control register (they hold their reset
\* value 0), writes the divisor 556 while the UART is disabled, sets
\* CR3.DMAT, and ends with TE and UE set and RE clear; in both, UE is set
\* only after the clock enables and the PD8 AF7 mux are written.
C10_UartInit ==
  /\ [][BrrWrite =>
          /\ usart'.BRR = 556
          /\ ~UartEnabled
          /\ fw = "nucleo" => ControlCleared
          /\ fw = "hil" => (usart.CR1 = {} /\ usart.CR2 = {} /\ usart.CR3 = {}
                            /\ <<"USART3", "CR1">> \notin Range(stores)
                            /\ <<"USART3", "CR2">> \notin Range(stores)
                            /\ <<"USART3", "CR3">> \notin Range(stores))]_vars
  /\ [](UartEnabled =>
          /\ usart.BRR = 556
          /\ Pd8Muxed
          /\ fw = "nucleo" =>
               /\ usart.CR1 = USART_CR1_TE \cup USART_CR1_RE \cup USART_CR1_UE
               /\ usart.CR3 = {}
          /\ fw = "hil" =>
               /\ usart.CR1 = USART_CR1_TE \cup USART_CR1_UE
               /\ usart.CR3 = USART_CR3_DMAT)

\* the stress-test firmware has enabled the UART, receive-enable clear
C10_Witness ==
  /\ fw = "hil"
  /\ UartEnabled
  /\ ~(USART_CR1_RE \subseteq usart.CR1)
  /\ At("hil_main_51")

\* the clock-enable bit of a GPIO port in RCC->AHB2ENR
PortClock(g) ==
  CASE g = "GPIOB" -> RCC_AHB2ENR_GPIOBEN
    [] g = "GPIOC" -> RCC_AHB2ENR_GPIOCEN
    [] g = "GPIOD" -> RCC_AHB2ENR_GPIODEN
    [] g = "GPIOF" -> RCC_AHB2ENR_GPIOFEN
    [] g = "GPIOG" -> RCC_AHB2ENR_GPIOGEN

\* the two-bit mode field of a pin holds m (0 input, 1 output)
ModeIs(g, pin, m) ==
  gpio[g].MODER \cap Shl(Bits(3), pin * 2) = Shl(Bits(m), pin * 2)

\* the port's clock is enabled and the CPU has written the pin's mode
\* field, which holds m
PinReady(g, pin, m) ==
  /\ PortClock(g) \subseteq rcc.AHB2ENR
  /\ <<g, "MODER">> \in Range(stores)
  /\ ModeIs(g, pin, m)

\* the statement at the head of pc reads GPIOC->IDR
IdrRead == At("main_127")

\* C11: at every store to a port's BSRR the port's clock is enabled and
\* the written pin's mode field has been written to output; at every read
\* of a port's IDR the port's clock is enabled and the read pin's mode
\* field has been written to input.
C11_ConfiguredBeforeUse ==
  /\ \A g \in BsrrTarget : \A pin \in LedPins(g) : PinReady(g, pin, 1)
  /\ IdrRead => PinReady("GPIOC", BTN_PIN, 0)

\* the output level the current iteration drives: high in even iterations
LapLevel == IF LineNo.lo % 2 = 0 THEN 1 ELSE 0

\* the bytes written in the current iteration are one whole status line
WholeLine ==
  /\ Len(tdrLog) >= 29
  /\ tdrLog = StatusLine(LineDigits, LapLevel, loc.btn)

\* the order of one cycle, by the position of the CPU: the three outputs
\* carry the flipped level before the input is sampled, the input is
\* sampled before the first byte of the line, the line is whole before the
\* counter is incremented, the counter is incremented by one before the
\* wait, and the wait writes nothing
CycleOrder ==
  /\ At("main_127") =>
       /\ loc.led_on = LapLevel
       /\ \A g \in {"GPIOB", "GPIOF", "GPIOG"} :
            \A pin \in LedPins(g) : Level(g, pin) = LapLevel
       /\ tdrLog = <<>>
  /\ At("main_129") => tdrLog = <<>>
  /\ At("main_141") => WholeLine /\ loc.blink_count = LineNo
  /\ (At("main_142") \/ At("delay_cycles_21")) =>
       WholeLine /\ loc.blink_count = U32Sum(LineNo, 1)

\* C12: the periodic-report firmware has no terminal state: each cycle
\* flips the output level, samples the input pin, emits one status line,
\* increments the counter by one and busy-waits a fixed count, in this
\* order; when the CPU keeps executing and the transmit-buffer-empty flag
\* is always eventually set, every cycle begun emits its status line, the
\* wait ends, and the next cycle begins.
C12_CyclesForever ==
  /\ []CycleOrder
  /\ [][(At("main_142") /\ pc' # pc) => loc'.cycles = DELAY_CYCLES]_vars
  /\ \A k \in 0..(MaxLaps - 1) : (laps = k) ~> (laps = k + 1)
  /\ At("main_125") ~> (At("main_141") /\ WholeLine)
  /\ At("main_142") ~> At("main_124")

\* the loop is at its head again, three cycles completed
C12_Witness ==
  /\ fw = "nucleo"
  /\ At("main_124")
  /\ laps = 3
  /\ loc.blink_count = U32Sum(lap0, 3)

\* the CPU stores to configuration register r in this step
Stores(r) == stores' = Append(stores, r)

\* the number of stores to r so far
StoreCount(r) == Cardinality({k \in DOMAIN stores : stores[k] = r})

\* the CPU has returned from dma1_init
DmaInitDone ==
  /\ fw = "hil"
  /\ \A k \in DOMAIN pc :
       pc[k] \notin {"hil_main_46", "hil_main_46_test", "hil_main_47",
                     "hil_main_50", "hil_main_51", "dma1_init_24",
                     "dma1_init_31", "dma1_init_32", "dma1_init_33",
                     "dma1_init_34"}

\* C13: the peripheral-address, memory-address and transfer-count registers
\* of the DMA channel are written only while the channel-enable bit is
\* clear, with the UART data register address, the buffer address and the
\* length 256; the channel is started by one write to the configuration
\* register that sets direction, memory increment, completion-interrupt
\* enable and channel enable together, and that register is written exactly
\* once in the run.
C13_DmaProgramming ==
  /\ [][/\ Stores(<<"DMA1_Channel1", "CPAR">>) =>
             ~DmaEnabled /\ dma'.CPAR = "USART3_TDR"
        /\ Stores(<<"DMA1_Channel1", "CMAR">>) =>
             ~DmaEnabled /\ dma'.CMAR = "stress_buffer" /\ dma'.cur = 0
        /\ Stores(<<"DMA1_Channel1", "CNDTR">>) =>
             ~DmaEnabled /\ dma'.CNDTR = 256
        /\ Stores(<<"DMA1_Channel1", "CCR">>) =>
             /\ ~DmaEnabled
             /\ dma.CPAR = "USART3_TDR"
             /\ dma.CMAR = "stress_buffer"
             /\ dma.CNDTR = 256
             /\ dma'.CCR = DMA_CCR_DIR \cup DMA_CCR_MINC \cup DMA_CCR_TCIE
                             \cup DMA_CCR_EN
        /\ dma'.CCR # dma.CCR => Stores(<<"DMA1_Channel1", "CCR">>)
        /\ <<dma'.CPAR, dma'.CMAR>> # <<dma.CPAR, dma.CMAR>> =>
             Len(stores') = Len(stores) + 1]_vars
  /\ [](StoreCount(<<"DMA1_Channel1", "CCR">>) <= 1)
  /\ [](DmaInitDone =>
          /\ StoreCount(<<"DMA1_Channel1", "CCR">>) = 1
          /\ StoreCount(<<"DMA1_Channel1", "CPAR">>) = 1
          /\ StoreCount(<<"DMA1_Channel1", "CMAR">>) = 1
          /\ StoreCount(<<"DMA1_Channel1", "CNDTR">>) = 1
          /\ DmaEnabled)

\* the program has halted, the configuration register written once
C13_Witness ==
  /\ Halted
  /\ StoreCount(<<"DMA1_Channel1", "CCR">>) = 1
  /\ dma.CNDTR = 0

\* C14: in the stress-test firmware, from the enabling of the DMA channel
\* onward, stress_buffer[i] = i mod 256 for every i in 0..255: the whole
\* buffer is filled before the channel is enabled and the CPU never writes
\* it afterwards, neither before nor after it observes transfer-complete.
C14_BufferStable ==
  /\ [](DmaEnabled =>
          /\ DOMAIN stress_buffer = 0..255
          /\ \A i \in 0..255 : stress_buffer[i] = i % 256)
  /\ [][DmaEnabled => stress_buffer' = stress_buffer]_vars
  /\ [][At("dma1_init_34") /\ pc' # pc => DmaEnabled' /\ BufferFilled]_vars

\* the transfer is under way, 100 bytes still to go
C14_Witness ==
  /\ DmaEnabled
  /\ dma.CNDTR = 100
  /\ stress_buffer[255] = 255
  /\ ~tcSeen

\* the bits of the two-bit field of pin p
Field2(p) == {2 * p, 2 * p + 1}

\* the two-bit field of pin p in register r
FieldOf(r, p) == Val(Shr(r \cap Field2(p), 2 * p))

\* C15: for every pin p in 0..15 and every prior register content,
\* gpio_config_output leaves pin p with mode 01, output type 0, speed 01
\* and pull 00, and gpio_config_input_pullup leaves it with mode 00 and
\* pull 01; both leave every other bit of the mode, output-type, speed and
\* pull registers of the port, and every other port, as they were.
C15_PinConfig ==
  (fw = "cfg" /\ pc = <<"done">>) =>
    LET p == arg.pin
        g == gpio["GPIOB"]
        old == arg.prior
    IN /\ p \in 0..15
       /\ \A h \in Ports \ {"GPIOB"} : gpio[h] = old
       /\ g.AFRH = old.AFRH /\ g.ODR = old.ODR /\ g.IDR = old.IDR
       /\ g.MODER \ Field2(p) = old.MODER \ Field2(p)
       /\ g.PUPDR \ Field2(p) = old.PUPDR \ Field2(p)
       /\ g.OSPEEDR \ Field2(p) = old.OSPEEDR \ Field2(p)
       /\ g.OTYPER \ {p} = old.OTYPER \ {p}
       /\ arg.fn = "gpio_config_output_30" =>
            /\ FieldOf(g.MODER, p) = 1
            /\ p \notin g.OTYPER
            /\ FieldOf(g.OSPEEDR, p) = 1
            /\ FieldOf(g.PUPDR, p) = 0
       /\ arg.fn = "gpio_config_input_pullup_40" =>
            /\ FieldOf(g.MODER, p) = 0
            /\ FieldOf(g.PUPDR, p) = 1
            /\ g.OTYPER = old.OTYPER
            /\ g.OSPEEDR = old.OSPEEDR

\* gpio_config_output has returned for pin 15, every field 11 before
C15_Witness ==
  /\ fw = "cfg"
  /\ pc = <<"done">>
  /\ arg.fn = "gpio_config_output_30"
  /\ arg.pin = 15
  /\ arg.prior.MODER = Word /\ arg.prior.PUPDR = Word
  /\ FieldOf(gpio["GPIOB"].MODER, 15) = 1

\* the CPU is past the completion poll
PastPoll ==
  \E k \in DOMAIN pc :
    pc[k] \in {"hil_main_63", "hil_main_64", "hil_main_67", "hil_main_69"}

\* C16: in the stress-test firmware a failure shows only as a permanent
\* block in the completion poll: until the CPU has read the DMA status
\* register with the channel-1 transfer-complete flag set, no byte of the
\* Passed banner is written, the signaling pin is not cleared and the
\* breakpoint is not reached; a poll that finds the flag clear leaves the
\* CPU at the poll with the pin still on, whatever the number of polls.
C16_BlockingPoll ==
  /\ [](~tcSeen =>
          /\ ~PastPoll
          /\ IsPrefix(tdrLog, TextStarted))
  /\ [](PastPoll => tcSeen)
  /\ [][tcSeen' # tcSeen => At("hil_main_58") /\ tcif /\ tcSeen']_vars
  /\ [][Level("GPIOB", 0)' < Level("GPIOB", 0) => tcSeen]_vars
  /\ [](At("hil_main_58") =>
          /\ pc = <<"hil_main_58">>
          /\ Level("GPIOB", 0) = 1
          /\ tdrLog = TextStarted)
  /\ [][(At("hil_main_58") /\ ~tcif) =>
          /\ pc' = pc
          /\ Level("GPIOB", 0)' = 1
          /\ tdrLog' = tdrLog
          /\ ~tcSeen']_vars

\* the CPU polls with the flag clear, the transfer stalled half-way
C16_Witness ==
  /\ At("hil_main_58")
  /\ ~tcif
  /\ ~tcSeen
  /\ dma.CNDTR = 128
  /\ txe
  /\ Level("GPIOB", 0) = 1

\* C17: in the stress-test firmware, when the DMA channel serves every
\* request of the UART and the transmit-buffer-empty flag is always
\* eventually set, the program reaches the breakpoint and its final loop;
\* from then on it stays there and no GPIO, UART or DMA register is written
\* again, by the CPU or by the channel.
C17_HaltsAndStays ==
  /\ <>Halted
  /\ [][Halted =>
          /\ Halted'
          /\ UNCHANGED <<rcc, gpio, usart, dma, tcif, stress_buffer>>
          /\ UNCHANGED <<tdrLog, dmaLog, stores>>]_vars
  /\ [](Halted => tcSeen /\ dma.CNDTR = 0)

\* the program has halted and the last byte has left the data register
C17_Witness ==
  /\ Halted
  /\ txe
  /\ Len(dmaLog) = STRESS_BUFFER_SIZE
  /\ Level("GPIOB", 0) = 0

\* the bytes of the string in memory m: those before its first NUL
RECURSIVE CString(_)
CString(m) ==
  IF m = <<>> \/ Head(m) = 0 THEN <<>> ELSE <<Head(m)>> \o CString(Tail(m))

\* C18: for every null-terminated string, a string-write routine writes to
\* the UART data register the bytes before the first NUL, in order, once
\* each, and nothing else: never the NUL, and nothing for the empty string.
\* This holds for uart3_write_str of both STM32 firmwares and for uart_puts.
C18_StringWrite ==
  fw = "str" =>
    /\ IsPrefix(tdrLog, CString(arg.mem))
    /\ 0 \notin Range(tdrLog)
    /\ pc = <<"done">> =>
         /\ tdrLog = CString(arg.mem)
         /\ Head(arg.mem) = 0 => tdrLog = <<>>
    /\ dmaLog = <<>>

\* uart_puts has returned from a string whose memory holds bytes after the
\* first NUL
C18_Witness ==
  /\ fw = "str"
  /\ pc = <<"done">>
  /\ arg.fn = "uart_puts_24"
  /\ arg.mem = <<255, 0, 65, 0>>
  /\ tdrLog = <<255>>

\* C19: in uart3_write_u32_dec the digit index stays within the 10-entry
\* buffer for every 32-bit argument: it is always in 0..10, every write of
\* buf uses an index in 0..9, every read of buf uses an index written in
\* this call, and the digit loop is left with the value at 0, never with
\* the buffer full and digits remaining.
C19_IndexInBuffer ==
  fw = "dec" =>
    /\ loc.i \in 0..10
    /\ DOMAIN loc.buf = 0..9
    /\ At("uart3_write_u32_dec_92") => loc.i \in 0..9
    /\ At("uart3_write_u32_dec_97") =>
         /\ loc.i - 1 \in 0..9
         /\ loc.buf[loc.i - 1] # Uninit
         /\ loc.buf[loc.i - 1] \in 48..57
    /\ At("uart3_write_u32_dec_96") => U32Zero(loc.value)
    /\ \A k \in 0..9 : loc.buf[k] = Uninit \/ loc.buf[k] \in 48..57

\* the digit loop is left for 4294967295: the buffer is full and the value
\* is 0
C19_Witness ==
  /\ fw = "dec"
  /\ At("uart3_write_u32_dec_96")
  /\ arg = [hi |-> Half - 1, lo |-> Half - 1]
  /\ loc.i = 10
  /\ U32Zero(loc.value)
  /\ tdrLog = <<>>

\* the statements of the main loop of the periodic-report firmware
LoopLabels ==
  {"main_124", "main_125", "main_127", "main_129", "main_130", "main_131",
   "main_132", "main_133", "main_134", "main_135", "main_136", "main_137",
   "main_138", "main_139", "main_141", "main_142"}

\* main of the periodic-report firmware has entered its loop
InLoop == fw = "nucleo" /\ pc # <<>> /\ pc[Len(pc)] \in LoopLabels

\* the configuration registers of a port: all but the output and input data
CfgRegs(r) == [r EXCEPT !.ODR = {}, !.IDR = {}]

\* C20: in the periodic-report firmware configuration happens once: after
\* the main loop is entered the CPU stores only to the bit-set/reset
\* registers of ports B, F and G and to the USART3 transmit data register;
\* the clock-enable registers, the GPIO mode, type, speed, pull and
\* alternate-function registers and the USART control and baud-rate
\* registers hold the values init gave them in every later state.
C20_ConfiguredOnce ==
  /\ [](InLoop =>
          /\ stores = NucleoInitStores
          /\ rcc = ConfiguredRcc
          /\ usart = ConfiguredUsart
          /\ dma = DmaReset
          /\ \E p \in ResetPatterns :
               \A g \in Ports : CfgRegs(gpio[g]) = CfgRegs(ConfiguredGpio(p)[g]))
  /\ [][InLoop =>
          /\ InLoop'
          /\ UNCHANGED <<stores, rcc, usart, dma>>
          /\ \A g \in Ports : CfgRegs(gpio'[g]) = CfgRegs(gpio[g])
          /\ \A g \in Ports :
               gpio'[g].ODR # gpio[g].ODR =>
                 g \in BsrrTarget /\ g \in {"GPIOB", "GPIOF", "GPIOG"}]_vars

\* the third cycle stores to the bit-set/reset register of port F
C20_Witness ==
  /\ InLoop
  /\ laps = 3
  /\ At("led_write_104")
  /\ stores = NucleoInitStores

=============================================================================
